---- MODULE Spec2Model ----
(***************************************************************************)
(* Streaming chat session engine of VeriSearch: the SSE decoding loop of   *)
(* sendChatMessage (src/lib/api.ts), the conversation store                *)
(* (src/stores/chatStore.ts) and the turn orchestration of ChatInterface   *)
(* and ChatInput.                                                          *)
(*                                                                         *)
(* Text is modelled as a sequence of one-character strings, so that        *)
(* split, trim, startsWith, slice and the JSON payload are computed on the *)
(* characters.  Clock values (timestamp, createdAt, updatedAt) are left    *)
(* out of the records.                                                     *)
(***************************************************************************)
EXTENDS Integers, Sequences, FiniteSets, TLC

\* ------------------------------------------------------------------------
\* Bounds of the model
\* ------------------------------------------------------------------------
MaxTurns == 2
MaxChats == 2
MaxLines == 2

\* ------------------------------------------------------------------------
\* String literals of the program
\* ------------------------------------------------------------------------
Null == 0

DataPrefix ==
    <<"d", "a", "t", "a", ":", " ">>

JsonOpen ==
    <<"{", "\"", "t", "y", "p", "e", "\"", ":", "\"">>

JsonData ==
    <<"\"", ",", "\"", "d", "a", "t", "a", "\"", ":", "\"">>

JsonClose ==
    <<"\"", "}">>

TypeContent ==
    <<"c", "o", "n", "t", "e", "n", "t">>

TypeDone ==
    <<"d", "o", "n", "e">>

TypeError ==
    <<"e", "r", "r", "o", "r">>

Undefined ==
    <<"u", "n", "d", "e", "f", "i", "n", "e", "d">>

NewConversation ==
    <<"N", "e", "w", " ", "C", "o", "n", "v", "e", "r", "s", "a", "t", "i", "o", "n">>

Ellipsis ==
    <<".", ".", ".">>

NoResponseNotice ==
    <<"(", "N", "o", " ", "r", "e", "s", "p", "o", "n", "s", "e", " ", "f", "r", "o", "m", " ",
      "A", "I", ".", " ", "P", "l", "e", "a", "s", "e", " ", "t", "r", "y", " ", "a", "g", "a",
      "i", "n", " ", "o", "r", " ", "c", "h", "e", "c", "k", " ", "y", "o", "u", "r", " ", "c",
      "o", "n", "n", "e", "c", "t", "i", "o", "n", ".", ")">>

ErrorPrefix ==
    <<"E", "r", "r", "o", "r", ":", " ">>

ChatRequestFailed ==
    <<"C", "h", "a", "t", " ", "r", "e", "q", "u", "e", "s", "t", " ", "f", "a", "i", "l", "e",
      "d">>

FailedToSendMessage ==
    <<"F", "a", "i", "l", "e", "d", " ", "t", "o", " ", "s", "e", "n", "d", " ", "m", "e", "s",
      "s", "a", "g", "e">>

BodyNotReadable ==
    <<"R", "e", "s", "p", "o", "n", "s", "e", " ", "b", "o", "d", "y", " ", "i", "s", " ", "n",
      "o", "t", " ", "r", "e", "a", "d", "a", "b", "l", "e">>

UnknownErrorOccurred ==
    <<"U", "n", "k", "n", "o", "w", "n", " ", "e", "r", "r", "o", "r", " ", "o", "c", "c", "u",
      "r", "r", "e", "d">>

TitleLen == 40

\* ------------------------------------------------------------------------
\* String primitives (String.prototype.trim, startsWith, slice, split)
\* ------------------------------------------------------------------------
WhiteSpace == {" ", "\n", "\r", "\t"}

RECURSIVE TrimStart(_)
TrimStart(s) ==
    IF s # <<>> /\ Head(s) \in WhiteSpace THEN TrimStart(Tail(s)) ELSE s

RECURSIVE TrimEnd(_)
TrimEnd(s) ==
    IF s # <<>> /\ s[Len(s)] \in WhiteSpace THEN TrimEnd(SubSeq(s, 1, Len(s) - 1)) ELSE s

Trim(s) == TrimEnd(TrimStart(s))

StartsWith(s, p) == Len(s) >= Len(p) /\ SubSeq(s, 1, Len(p)) = p

\* s.slice(n)
SliceFrom(s, n) == SubSeq(s, n + 1, Len(s))

\* s.slice(0, n)
SliceTo(s, n) == SubSeq(s, 1, IF Len(s) < n THEN Len(s) ELSE n)

\* s.indexOf(c) + 1, 0 when c does not occur
IndexOf(s, c) ==
    IF \E i \in 1..Len(s) : s[i] = c
    THEN CHOOSE i \in 1..Len(s) : s[i] = c /\ \A j \in 1..(i - 1) : s[j] # c
    ELSE 0

\* s.split('\n'): never empty, the last element is the text after the last newline
RECURSIVE SplitNL(_)
SplitNL(s) ==
    LET i == IndexOf(s, "\n")
    IN  IF i = 0 THEN <<s>>
        ELSE <<SubSeq(s, 1, i - 1)>> \o SplitNL(SliceFrom(s, i))

\* ------------------------------------------------------------------------
\* Wire protocol: the server's frames and JSON.parse of a payload
\* ------------------------------------------------------------------------
\* {"type":"<type>","data":"<data>"}
JsonWithData(type, data) == JsonOpen \o type \o JsonData \o data \o JsonClose

\* {"type":"<type>"}
JsonNoData(type) == JsonOpen \o type \o JsonClose

Frame(payload) == DataPrefix \o payload \o <<"\n">>

ParseFailure == [ok |-> FALSE, type |-> <<>>, hasData |-> FALSE, data |-> <<>>]

\* JSON.parse restricted to the protocol's record shapes: surrounding
\* whitespace is accepted, anything that is not one of the two shapes is
\* reported as a failure (a SyntaxError, or a value without a usable type:
\* both end without a callback in the decoding loop).
JsonParse(d) ==
    LET s == Trim(d)
    IN  IF ~StartsWith(s, JsonOpen) THEN ParseFailure
        ELSE LET r == SliceFrom(s, Len(JsonOpen))
                 q == IndexOf(r, "\"")
             IN  IF q = 0 THEN ParseFailure
                 ELSE LET type == SubSeq(r, 1, q - 1)
                          rest == SliceFrom(r, q - 1)
                      IN  IF rest = JsonClose
                          THEN [ok |-> TRUE, type |-> type, hasData |-> FALSE, data |-> <<>>]
                          ELSE IF ~StartsWith(rest, JsonData) THEN ParseFailure
                          ELSE LET r2 == SliceFrom(rest, Len(JsonData))
                                   q2 == IndexOf(r2, "\"")
                               IN  IF q2 = 0 \/ SliceFrom(r2, q2 - 1) # JsonClose
                                   THEN ParseFailure
                                   ELSE [ok |-> TRUE, type |-> type, hasData |-> TRUE,
                                         data |-> SubSeq(r2, 1, q2 - 1)]

\* ------------------------------------------------------------------------
\* sendChatMessage: the decoding loop
\* ------------------------------------------------------------------------
\* The callback one complete line triggers (a sequence of zero or one call).
\* parsed.data is handed over as it is: absent data is the value undefined.
LineCalls(line) ==
    IF Trim(line) = <<>> THEN <<>>
    ELSE IF ~StartsWith(line, DataPrefix) THEN <<>>
    ELSE LET parsed == JsonParse(SliceFrom(line, Len(DataPrefix)))
         IN  IF ~parsed.ok THEN <<>>
             ELSE IF parsed.type = TypeContent
                  THEN <<[kind |-> "chunk", hasData |-> parsed.hasData, data |-> parsed.data]>>
             ELSE IF parsed.type = TypeDone
                  THEN <<[kind |-> "done", hasData |-> FALSE, data |-> <<>>]>>
             ELSE IF parsed.type = TypeError
                  THEN <<[kind |-> "error", hasData |-> parsed.hasData, data |-> parsed.data]>>
             ELSE <<>>

\* a "data: " line whose payload does not parse ends the loop
RECURSIVE LinesCallsStopAtMalformed(_)
LinesCallsStopAtMalformed(lines) ==
    IF lines = <<>> THEN <<>>
    ELSE IF /\ StartsWith(Head(lines), DataPrefix)
            /\ ~JsonParse(SliceFrom(Head(lines), Len(DataPrefix))).ok
         THEN <<>>
         ELSE LineCalls(Head(lines)) \o LinesCallsStopAtMalformed(Tail(lines))

\* for (const line of lines): every line is looked at, nothing ends the loop
RECURSIVE LinesCalls(_)
LinesCalls(lines) ==
    IF lines = <<>> THEN <<>> ELSE LineCalls(Head(lines)) \o LinesCalls(Tail(lines))

\* The carry-over buffer is dropped instead of being prepended.
DecodeFragmentNoCarry(buffer, chunk) ==
    LET lines == SplitNL(chunk)
    IN  [buffer |-> lines[Len(lines)],
         calls  |-> LinesCalls(SubSeq(lines, 1, Len(lines) - 1))]

\* One iteration of the read loop on a received fragment: buffer += chunk,
\* split, keep the last partial line, process the complete lines.
DecodeFragment(buffer, chunk) ==
    LET lines == SplitNL(buffer \o chunk)
    IN  [buffer |-> lines[Len(lines)],
         calls  |-> LinesCalls(SubSeq(lines, 1, Len(lines) - 1))]

\* ------------------------------------------------------------------------
\* State
\* ------------------------------------------------------------------------
VARIABLES
    chats,          \* store: conversations, most recent first
    activeChat,     \* store: id of the active conversation or Null
    activeDataset,  \* store: id of the active dataset or Null
    nextChat,       \* the next identifier crypto.randomUUID() hands to createChat
    mounted,        \* whether the chat page (ChatInterface) is mounted
    isThinking,     \* useState of the mounted ChatInterface
    turns,          \* the handleSend invocations: closure variables and position
    \* (turns also holds the part of each response the network has not delivered yet)
    splitText,      \* decoder experiment: the response text
    splitCut,       \* decoder experiment: offset of the cut
    splitFed,       \* decoder experiment: number of fragments fed
    splitBuffer,    \* decoder experiment: carry-over buffer
    splitCalls      \* decoder experiment: callbacks invoked so far

storeVars == <<chats, activeChat, activeDataset, nextChat>>
viewVars  == <<mounted, isThinking>>
splitVars == <<splitText, splitCut, splitFed, splitBuffer, splitCalls>>
vars == <<chats, activeChat, activeDataset, nextChat, mounted, isThinking, turns,
          splitText, splitCut, splitFed, splitBuffer, splitCalls>>

Turns == 1..MaxTurns

\* ------------------------------------------------------------------------
\* Conversation store (chatStore.ts)
\* ------------------------------------------------------------------------
ChatIds(cs) == {cs[i].id : i \in 1..Len(cs)}

FindChat(cs, id) == CHOOSE i \in 1..Len(cs) : cs[i].id = id

\* the new conversation goes behind the others
CreateChatAtEnd(cs, id, datasetId) ==
    cs \o <<[id |-> id, title |-> NewConversation, messages |-> <<>>, datasetId |-> datasetId]>>

\* createChat: the new conversation goes to the front
CreateChat(cs, id, datasetId) ==
    <<[id |-> id, title |-> NewConversation, messages |-> <<>>, datasetId |-> datasetId]>> \o cs

\* the conversation at the front is removed, whatever the id
DeleteChatAtFront(cs, id) == IF cs = <<>> THEN cs ELSE Tail(cs)

\* deleteChat: chats.filter(chat => chat.id !== id)
DeleteChatFrom(cs, id) == SelectSeq(cs, LAMBDA c : c.id # id)

\* the message is put in front of the others
AddMessagePrepend(cs, chatId, message) ==
    [i \in 1..Len(cs) |->
        IF cs[i].id = chatId
        THEN [cs[i] EXCEPT
                !.messages = <<message>> \o @,
                !.title = IF Len(cs[i].messages) = 0
                          THEN SliceTo(message.content, TitleLen) \o Ellipsis
                          ELSE @]
        ELSE cs[i]]

\* addMessage
AddMessage(cs, chatId, message) ==
    [i \in 1..Len(cs) |->
        IF cs[i].id = chatId
        THEN [cs[i] EXCEPT
                !.messages = Append(@, message),
                !.title = IF Len(cs[i].messages) = 0
                          THEN SliceTo(message.content, TitleLen) \o Ellipsis
                          ELSE @]
        ELSE cs[i]]

\* the fields of the patch are not written
MergeNothing(msg, updates) == msg

\* { ...msg, ...updates }
Merge(msg, updates) ==
    [f \in DOMAIN msg \cup DOMAIN updates |-> IF f \in DOMAIN updates THEN updates[f] ELSE msg[f]]

\* the message id is not compared: every message of the conversation is patched
UpdateMessageEveryMessage(cs, chatId, messageId, updates) ==
    [i \in 1..Len(cs) |->
        IF cs[i].id = chatId
        THEN [cs[i] EXCEPT !.messages = [j \in 1..Len(@) |-> Merge(@[j], updates)]]
        ELSE cs[i]]

\* updateMessage
UpdateMessage(cs, chatId, messageId, updates) ==
    [i \in 1..Len(cs) |->
        IF cs[i].id = chatId
        THEN [cs[i] EXCEPT
                !.messages = [j \in 1..Len(@) |->
                                IF @[j].id = messageId THEN Merge(@[j], updates) ELSE @[j]]]
        ELSE cs[i]]

\* ------------------------------------------------------------------------
\* Turn orchestration (ChatInterface.handleSend and its callbacks)
\* ------------------------------------------------------------------------
UnusedTurn ==
    [pc |-> "unused", chatId |-> Null, userId |-> 0, aiId |-> 0, fullContent |-> <<>>,
     stream |-> <<>>, buffer |-> <<>>, calls |-> <<>>, live |-> FALSE, outcome |-> "none", error |-> <<>>,
     req |-> [message |-> <<>>, history |-> <<>>, datasetId |-> Null]]

\* crypto.randomUUID() for the two messages of turn t
UserMessageId(t) == 2 * t - 1
AiMessageId(t) == 2 * t

\* every message is sent, whatever its content
HistoryUnfiltered(messages) ==
    [i \in 1..Len(messages) |-> [role |-> messages[i].role, content |-> messages[i].content]]

\* messages.filter(msg => msg.content && msg.content.trim() !== '').map(...)
RECURSIVE History(_)
History(messages) ==
    IF messages = <<>> THEN <<>>
    ELSE LET m == Head(messages)
         IN  (IF m.content # <<>> /\ Trim(m.content) # <<>>
              THEN <<[role |-> m.role, content |-> m.content]>>
              ELSE <<>>) \o History(Tail(messages))

\* chunk (as coerced by fullContent += chunk)
ChunkText(call) == IF call.hasData THEN call.data ELSE Undefined

\* onChunk that stores the chunk instead of the accumulated text
OnChunkNoAccumulate(st, t, call) ==
    [fullContent |-> st.fullContent \o ChunkText(call),
     chats |-> UpdateMessage(st.chats, turns[t].chatId, turns[t].aiId,
                             [content |-> ChunkText(call)])]

\* onChunk: fullContent += chunk; updateMessage(chatId, aiMessage.id, {content: fullContent})
OnChunk(st, t, call) ==
    LET full == st.fullContent \o ChunkText(call)
    IN  [fullContent |-> full,
         chats |-> UpdateMessage(st.chats, turns[t].chatId, turns[t].aiId, [content |-> full])]

\* onChunk patches the message in the active conversation
InLoopCallActiveChat(st, t, call) ==
    IF call.kind = "chunk"
    THEN [fullContent |-> st.fullContent \o ChunkText(call),
          chats |-> UpdateMessage(st.chats, activeChat, turns[t].aiId,
                                  [content |-> st.fullContent \o ChunkText(call)])]
    ELSE st

\* A callback invoked from inside the loop's try block: onDone does nothing,
\* and what onError throws is caught by the catch around JSON.parse.
InLoopCall(st, t, call) ==
    IF call.kind = "chunk" THEN OnChunk(st, t, call) ELSE st

RECURSIVE InLoopCalls(_, _, _)
InLoopCalls(st, t, calls) ==
    IF calls = <<>> THEN st
    ELSE InLoopCalls(InLoopCall(st, t, Head(calls)), t, Tail(calls))

\* the test of the accumulated text is dropped
IsBlankNever(s) == FALSE

\* !fullContent || fullContent.trim() === ''
IsBlank(s) == s = <<>> \/ Trim(s) = <<>>

\* every non-empty accumulator counts as a response
SuccessPatchNoTrim(fullContent) ==
    IF fullContent = <<>>
    THEN [content |-> NoResponseNotice, isStreaming |-> FALSE]
    ELSE [isStreaming |-> FALSE]

\* the patch of the path after the await
SuccessPatch(fullContent) ==
    IF IsBlank(fullContent)
    THEN [content |-> NoResponseNotice, isStreaming |-> FALSE]
    ELSE [isStreaming |-> FALSE]

\* the catch block keeps the content
FailurePatchKeepContent(message) == [isStreaming |-> FALSE]

\* the patch of handleSend's catch block
FailurePatch(message) == [content |-> ErrorPrefix \o message, isStreaming |-> FALSE]

\* error instanceof Error ? error.message : 'Unknown error occurred'
ThrownMessage(e) == IF e.isError THEN e.message ELSE UnknownErrorOccurred

\* the detail of the body is ignored
NotOkMessageNoDetail(body) ==
    IF body.parseable THEN FailedToSendMessage ELSE ChatRequestFailed

\* response.json().catch(() => ({detail: 'Chat request failed'})), then
\* error.detail || 'Failed to send message'
NotOkMessage(body) ==
    LET error == IF body.parseable THEN body ELSE [parseable |-> TRUE, detail |-> ChatRequestFailed]
    IN  IF error.detail # <<>> THEN error.detail ELSE FailedToSendMessage

\* setIsThinking(false) is not called
ThinkingAfterStuck(t) == isThinking

\* setIsThinking(false) acts on the component instance that started the turn
ThinkingAfter(t) == IF turns[t].live THEN FALSE ELSE isThinking

\* ------------------------------------------------------------------------
\* Inputs
\* ------------------------------------------------------------------------
\* what the user types into the textarea
UserTexts == {<<"h", "i", " ">>, <<" ">>}

Hel == <<"H", "e", "l">>
Lo == <<"l", "o">>
Boom == <<"b", "o", "o", "m">>

FrameHel == Frame(JsonWithData(TypeContent, Hel))
FrameLo == Frame(JsonWithData(TypeContent, Lo))
FrameSpace == Frame(JsonWithData(TypeContent, <<" ">>))
FrameDone == Frame(JsonNoData(TypeDone))
FrameError == Frame(JsonWithData(TypeError, Boom))

\* a frame cut inside its payload; the second part is followed by a blank line
PartHead == SubSeq(FrameLo, 1, 12)
PartTail == SubSeq(FrameLo, 13, Len(FrameLo)) \o <<"\n">>

\* the response bodies of the server, each as the fragments reader.read()
\* delivers; the connection may also close or break before the last one
Responses ==
    {<<FrameHel, FrameLo, FrameError>>,
     <<FrameDone, FrameLo>>,
     <<PartHead, PartTail \o FrameDone>>,
     <<FrameSpace>>}

\* what fetch() rejects with
FetchErrors ==
    {[isError |-> TRUE,
      message |-> <<"F", "a", "i", "l", "e", "d", " ", "t", "o", " ", "f", "e", "t", "c", "h">>]}

\* what reader.read() rejects with
ReadErrors ==
    {[isError |-> TRUE,
      message |-> <<"n", "e", "t", "w", "o", "r", "k", " ", "e", "r", "r", "o", "r">>],
     [isError |-> FALSE, message |-> <<>>]}

\* bodies of a non-success response: not JSON, JSON without detail, JSON with detail
NotOkBodies ==
    {[parseable |-> FALSE, detail |-> <<>>],
     [parseable |-> TRUE, detail |-> <<>>],
     [parseable |-> TRUE, detail |-> Boom]}

\* ------------------------------------------------------------------------
\* Initial state
\* ------------------------------------------------------------------------
StoreInit ==
    /\ chats = <<>>
    /\ activeChat = Null
    /\ activeDataset = Null
    /\ nextChat = 1

MainInit ==
    /\ StoreInit
    /\ mounted = FALSE
    /\ isThinking = FALSE
    /\ turns = [t \in Turns |-> UnusedTurn]

Init ==
    /\ MainInit
    /\ splitText = <<>>
    /\ splitCut = 0
    /\ splitFed = 2
    /\ splitBuffer = <<>>
    /\ splitCalls = <<>>

\* ------------------------------------------------------------------------
\* Navigation and the conversation list
\* ------------------------------------------------------------------------
\* a nav link to a page other than /chat: the ChatInterface is unmounted
LeaveChatView ==
    /\ mounted
    /\ mounted' = FALSE
    /\ isThinking' = FALSE
    /\ turns' = [t \in Turns |-> [turns[t] EXCEPT !.live = FALSE]]
    /\ UNCHANGED <<storeVars, splitVars>>

\* the nav link to /chat: a new ChatInterface with useState(false)
EnterChatView ==
    /\ ~mounted
    /\ mounted' = TRUE
    /\ isThinking' = FALSE
    /\ UNCHANGED <<storeVars, turns, splitVars>>

\* a nav link to another page and the nav link back to /chat, with nothing
\* between the two: the ChatInterface is unmounted and a new one is mounted
Remount ==
    /\ mounted
    /\ isThinking' = FALSE
    /\ turns' = [t \in Turns |-> [turns[t] EXCEPT !.live = FALSE]]
    /\ UNCHANGED <<storeVars, mounted, splitVars>>

\* handleNewChat: createChat(); navigate('/chat')
NewChat ==
    /\ nextChat <= MaxChats
    /\ chats' = CreateChat(chats, nextChat, activeDataset)
    /\ activeChat' = nextChat
    /\ nextChat' = nextChat + 1
    /\ mounted' = TRUE
    /\ isThinking' = IF mounted THEN isThinking ELSE FALSE
    /\ UNCHANGED <<activeDataset, turns, splitVars>>

\* onSelect: setActiveChat(id); navigate('/chat')
SelectChat(id) ==
    /\ id \in ChatIds(chats)
    /\ activeChat' = id
    /\ mounted' = TRUE
    /\ isThinking' = IF mounted THEN isThinking ELSE FALSE
    /\ UNCHANGED <<chats, activeDataset, nextChat, turns, splitVars>>

\* deleteChat leaves the active pointer as it is
DeleteChatKeepActive(id) ==
    /\ id \in ChatIds(chats)
    /\ chats' = DeleteChatFrom(chats, id)
    /\ UNCHANGED <<activeChat, activeDataset, nextChat, viewVars, turns, splitVars>>

\* onDelete: deleteChat(id)
DeleteChat(id) ==
    /\ id \in ChatIds(chats)
    /\ chats' = DeleteChatFrom(chats, id)
    /\ activeChat' = IF activeChat = id THEN Null ELSE activeChat
    /\ UNCHANGED <<activeDataset, nextChat, viewVars, turns, splitVars>>

\* ------------------------------------------------------------------------
\* A turn
\* ------------------------------------------------------------------------
\* the placeholder is added as a message of the user
AiMessageRoleUser(t) ==
    [id |-> AiMessageId(t), role |-> "user", content |-> <<>>, isStreaming |-> TRUE]

\* the empty assistant placeholder of turn t
AiMessage(t) ==
    [id |-> AiMessageId(t), role |-> "assistant", content |-> <<>>, isStreaming |-> TRUE]

\* the text is handed over as it was typed
SentTextUntrimmed(text) == text

\* onSend(message.trim())
SentText(text) == Trim(text)

\* ChatInput.handleSend and ChatInterface.handleSend up to the first await
\* (sendChatMessage has issued the fetch).
Submit(text) ==
    /\ mounted
    /\ Trim(text) # <<>>
    /\ ~isThinking
    /\ \E t \in Turns : turns[t].pc = "unused"
    /\ activeChat = Null => nextChat <= MaxChats
    /\ LET t == CHOOSE u \in Turns : turns[u].pc = "unused" /\ \A v \in 1..(u - 1) : turns[v].pc # "unused"
           content == SentText(text)
           messages == IF activeChat \in ChatIds(chats)
                       THEN chats[FindChat(chats, activeChat)].messages
                       ELSE <<>>
           chatId == IF activeChat = Null THEN nextChat ELSE activeChat
           cs == IF activeChat = Null THEN CreateChat(chats, nextChat, activeDataset) ELSE chats
           userMessage == [id |-> UserMessageId(t), role |-> "user", content |-> content,
                           isStreaming |-> FALSE]
           aiMessage == AiMessage(t)
       IN  /\ chats' = AddMessage(AddMessage(cs, chatId, userMessage), chatId, aiMessage)
           /\ activeChat' = chatId
           /\ nextChat' = IF activeChat = Null THEN nextChat + 1 ELSE nextChat
           /\ isThinking' = TRUE
           /\ turns' = [turns EXCEPT ![t] =
                          [UnusedTurn EXCEPT
                             !.pc = "fetching", !.chatId = chatId,
                             !.userId = userMessage.id, !.aiId = aiMessage.id,
                             !.live = TRUE, !.outcome = "pending",
                             !.req = [message |-> content, history |-> History(messages),
                                      datasetId |-> activeDataset]]]
    /\ UNCHANGED <<activeDataset, mounted, splitVars>>

\* sendChatMessage's catch block calls onError(message); the callback of
\* handleSend throws, the exception leaves sendChatMessage and reaches the
\* catch block of handleSend.
Fail(t, message) ==
    /\ isThinking' = ThinkingAfter(t)
    /\ chats' = UpdateMessage(chats, turns[t].chatId, turns[t].aiId, FailurePatch(message))
    /\ turns' = [turns EXCEPT ![t].pc = "failed", ![t].outcome = "raised",
                              ![t].error = message, ![t].stream = <<>>, ![t].buffer = <<>>,
                              ![t].calls = Append(@, [kind |-> "error", hasData |-> TRUE,
                                                      data |-> message])]
    /\ UNCHANGED <<activeChat, activeDataset, nextChat, mounted, splitVars>>

\* await fetch(...) rejects
FetchFails(t, e) ==
    /\ turns[t].pc = "fetching"
    /\ Fail(t, ThrownMessage(e))

\* !response.ok
ResponseNotOk(t, body) ==
    /\ turns[t].pc = "fetching"
    /\ Fail(t, NotOkMessage(body))

\* response.body is missing
ResponseNoBody(t) ==
    /\ turns[t].pc = "fetching"
    /\ Fail(t, BodyNotReadable)

\* the response is ok and has a body: the read loop starts
ResponseOk(t, body) ==
    /\ turns[t].pc = "fetching"
    /\ turns' = [turns EXCEPT ![t].pc = "reading", ![t].stream = body]
    /\ UNCHANGED <<storeVars, viewVars, splitVars>>

\* reader.read() delivers a fragment: one iteration of the loop
ReadFragment(t) ==
    /\ turns[t].pc = "reading"
    /\ turns[t].stream # <<>>
    /\ LET d == DecodeFragment(turns[t].buffer, Head(turns[t].stream))
           st == InLoopCalls([fullContent |-> turns[t].fullContent, chats |-> chats], t, d.calls)
       IN  /\ chats' = st.chats
           /\ turns' = [turns EXCEPT ![t].stream = Tail(@),
                                     ![t].buffer = d.buffer,
                                     ![t].fullContent = st.fullContent,
                                     ![t].calls = @ \o d.calls]
    /\ UNCHANGED <<activeChat, activeDataset, nextChat, viewVars, splitVars>>

\* handleSend continues after the await and leaves the message as it is
ReadEndNoPatch(t) ==
    /\ turns[t].pc = "reading"
    /\ isThinking' = ThinkingAfter(t)
    /\ turns' = [turns EXCEPT ![t].pc = "settled", ![t].outcome = "returned",
                              ![t].stream = <<>>, ![t].buffer = <<>>]
    /\ UNCHANGED <<chats, activeChat, activeDataset, nextChat, mounted, splitVars>>

\* reader.read() reports done: sendChatMessage returns, handleSend continues
\* after the await
ReadEnd(t) ==
    /\ turns[t].pc = "reading"
    /\ isThinking' = ThinkingAfter(t)
    /\ chats' = UpdateMessage(chats, turns[t].chatId, turns[t].aiId,
                              SuccessPatch(turns[t].fullContent))
    /\ turns' = [turns EXCEPT ![t].pc = "settled", ![t].outcome = "returned",
                              ![t].stream = <<>>, ![t].buffer = <<>>]
    /\ UNCHANGED <<activeChat, activeDataset, nextChat, mounted, splitVars>>

\* reader.read() rejects
ReadFails(t, e) ==
    /\ turns[t].pc = "reading"
    /\ Fail(t, ThrownMessage(e))

Next ==
    \/ LeaveChatView
    \/ EnterChatView
    \/ NewChat
    \/ \E id \in 1..MaxChats : SelectChat(id)
    \/ \E id \in 1..MaxChats : DeleteChat(id)
    \/ \E text \in UserTexts : Submit(text)
    \/ \E t \in Turns, e \in FetchErrors : FetchFails(t, e)
    \/ \E t \in Turns, body \in NotOkBodies : ResponseNotOk(t, body)
    \/ \E t \in Turns : ResponseNoBody(t)
    \/ \E t \in Turns, body \in Responses : ResponseOk(t, body)
    \/ \E t \in Turns : ReadFragment(t)
    \/ \E t \in Turns : ReadEnd(t)
    \/ \E t \in Turns, e \in ReadErrors : ReadFails(t, e)

Spec == Init /\ [][Next]_vars

\* a submission when no message has been submitted before
SubmitFirst(text) ==
    /\ \A t \in Turns : turns[t].pc = "unused"
    /\ Submit(text)

\* The same program when the user submits a single message: everything else
\* (navigation, the conversation list, the network) is as in Next.
NextOneTurn ==
    \/ LeaveChatView
    \/ EnterChatView
    \/ NewChat
    \/ \E id \in 1..MaxChats : SelectChat(id)
    \/ \E id \in 1..MaxChats : DeleteChat(id)
    \/ \E text \in UserTexts : SubmitFirst(text)
    \/ \E t \in Turns, e \in FetchErrors : FetchFails(t, e)
    \/ \E t \in Turns, body \in NotOkBodies : ResponseNotOk(t, body)
    \/ \E t \in Turns : ResponseNoBody(t)
    \/ \E t \in Turns, body \in Responses : ResponseOk(t, body)
    \/ \E t \in Turns : ReadFragment(t)
    \/ \E t \in Turns : ReadEnd(t)
    \/ \E t \in Turns, e \in ReadErrors : ReadFails(t, e)

SpecOneTurn == Init /\ [][NextOneTurn]_vars

\* a response body of two content frames, the first with the chunk " ", and
\* no terminal event
ShortResponses == {<<FrameSpace, FrameHel>>}

\* reader.read() reports done once every fragment of the body was delivered
StreamEnds(t) == turns[t].stream = <<>> /\ ReadEnd(t)

\* MaxTurns submissions, concurrent across remounts of the chat view, with
\* ShortResponses as the response bodies, delivered in full
NextTurns ==
    \/ EnterChatView
    \/ Remount
    \/ NewChat
    \/ \E id \in 1..MaxChats : SelectChat(id)
    \/ \E id \in 1..MaxChats : DeleteChat(id)
    \/ \E text \in UserTexts : Submit(text)
    \/ \E t \in Turns, body \in ShortResponses : ResponseOk(t, body)
    \/ \E t \in Turns : ReadFragment(t)
    \/ \E t \in Turns : StreamEnds(t)

SpecTurns == Init /\ [][NextTurns]_vars

\* The page is reloaded: every pending handleSend is gone with the page, the
\* store is rehydrated from what persist wrote at its last change (chats,
\* with their messages as they were, activeChat, activeDataset), and the
\* route shows a new component with useState(false).
Reload ==
    /\ isThinking' = FALSE
    /\ turns' = [t \in Turns |->
                    IF turns[t].pc \in {"fetching", "reading"}
                    THEN [turns[t] EXCEPT !.pc = "gone", !.live = FALSE,
                                          !.stream = <<>>, !.buffer = <<>>]
                    ELSE [turns[t] EXCEPT !.live = FALSE]]
    /\ UNCHANGED <<storeVars, mounted, splitVars>>

\* the ids of the datasets the dropdown lists
DatasetIds == {1, 2}

\* DropdownMenuItem onClick: setActiveDataset(ds.id)
SetActiveDataset(id) ==
    /\ activeDataset' = id
    /\ UNCHANGED <<chats, activeChat, nextChat, viewVars, turns, splitVars>>

\* One turn, with the user choosing among the datasets.
NextDataset ==
    \/ NextOneTurn
    \/ \E id \in DatasetIds : SetActiveDataset(id)

SpecDataset == Init /\ [][NextDataset]_vars

\* one submission, and reloads of the page
NextReload ==
    \/ NextOneTurn
    \/ Reload

SpecReload == Init /\ [][NextReload]_vars

\* the promise of fetch is resolved or rejected
FetchSettles(t) ==
    \/ \E e \in FetchErrors : FetchFails(t, e)
    \/ \E body \in NotOkBodies : ResponseNotOk(t, body)
    \/ ResponseNoBody(t)
    \/ \E body \in Responses : ResponseOk(t, body)

\* the response stream ends or fails: reader.read() reports done or rejects
StreamCloses(t) ==
    \/ ReadEnd(t)
    \/ \E e \in ReadErrors : ReadFails(t, e)

\* one submission whose request is eventually answered or fails, and whose
\* response stream eventually ends or fails
SpecOneTurnFair ==
    /\ SpecOneTurn
    /\ \A t \in Turns : WF_vars(FetchSettles(t)) /\ WF_vars(StreamCloses(t))

\* ------------------------------------------------------------------------
\* The decoding loop on a response text cut into two fragments
\* ------------------------------------------------------------------------
FrameLoCRLF == DataPrefix \o JsonWithData(TypeContent, Lo) \o <<"\r", "\n">>

\* complete lines of a response, a blank line, a comment line, a line with a
\* truncated payload, and a frame without its newline
SplitLines ==
    {FrameHel, FrameDone, FrameError, FrameLoCRLF,
     <<"\n">>,
     <<":", " ", "p", "\n">>,
     PartHead \o <<"\n">>,
     DataPrefix \o JsonNoData(TypeDone)}

RECURSIVE Flatten(_)
Flatten(ss) == IF ss = <<>> THEN <<>> ELSE Head(ss) \o Flatten(Tail(ss))

SplitTexts == {Flatten(f) : f \in UNION {[1..n -> SplitLines] : n \in 1..MaxLines}}

SplitInit ==
    /\ MainInit
    /\ splitText \in SplitTexts
    /\ splitCut \in 0..Len(splitText)
    /\ splitFed = 0
    /\ splitBuffer = <<>>
    /\ splitCalls = <<>>

\* reader.read() delivers the next of the two fragments
SplitFeed ==
    /\ splitFed < 2
    /\ LET fragment == IF splitFed = 0
                       THEN SubSeq(splitText, 1, splitCut)
                       ELSE SubSeq(splitText, splitCut + 1, Len(splitText))
           d == DecodeFragment(splitBuffer, fragment)
       IN  /\ splitBuffer' = d.buffer
           /\ splitCalls' = splitCalls \o d.calls
    /\ splitFed' = splitFed + 1
    /\ UNCHANGED <<storeVars, viewVars, turns, splitText, splitCut>>

SplitNext == SplitFeed

SpecSplit == SplitInit /\ [][SplitNext]_vars

\* ------------------------------------------------------------------------
\* Vocabulary of the properties
\* ------------------------------------------------------------------------
HasAi(t) ==
    \E i \in 1..Len(chats) :
        /\ chats[i].id = turns[t].chatId
        /\ \E j \in 1..Len(chats[i].messages) : chats[i].messages[j].id = turns[t].aiId

\* the assistant message of turn t in the store
Ai(t) ==
    LET c == chats[FindChat(chats, turns[t].chatId)]
    IN  c.messages[CHOOSE j \in 1..Len(c.messages) : c.messages[j].id = turns[t].aiId]

Ended(t) == turns[t].pc \in {"settled", "failed"}

KindAt(t, k) == {i \in 1..Len(turns[t].calls) : turns[t].calls[i].kind = k}

\* c1 + ... + ck of the chunk callbacks in a log of callbacks
RECURSIVE ConcatChunks(_)
ConcatChunks(calls) ==
    IF calls = <<>> THEN <<>>
    ELSE (IF Head(calls).kind = "chunk" THEN ChunkText(Head(calls)) ELSE <<>>)
         \o ConcatChunks(Tail(calls))

NonBlank(s) == \E i \in 1..Len(s) : s[i] \notin WhiteSpace

\* ------------------------------------------------------------------------
\* Properties
\* ------------------------------------------------------------------------

\* C1 (error overwrite): a turn whose stream delivered a decoded error event
\* ends with the assistant message holding the error string of that event
\* and isStreaming false.
C1_ErrorOverwrite ==
    \A t \in Turns :
        (Ended(t) /\ HasAi(t) /\ KindAt(t, "error") # {})
            => /\ ~Ai(t).isStreaming
               /\ \E i \in KindAt(t, "error") :
                      Ai(t).content = ErrorPrefix \o turns[t].calls[i].data

\* C2 (single in-flight): every conversation holds at most one message with
\* isStreaming true.
C2_SingleInFlight ==
    \A i \in 1..Len(chats) :
        Cardinality({j \in 1..Len(chats[i].messages) : chats[i].messages[j].isStreaming}) <= 1

\* C3 (stop after terminal event): in the callbacks of one sendChatMessage
\* invocation nothing follows a done or an error callback.
C3_StopAfterTerminal ==
    \A t \in Turns :
        \A i \in 1..Len(turns[t].calls) :
            turns[t].calls[i].kind \in {"done", "error"} => i = Len(turns[t].calls)

\* C4 (ordering): while the stream of a turn is read, the content of its
\* assistant message is c1 + ... + ck for the k chunks delivered so far, each
\* once and in delivery order, and so is the accumulator.
C4_Ordering ==
    \A t \in Turns :
        /\ turns[t].fullContent = ConcatChunks(turns[t].calls)
        /\ (turns[t].pc = "reading" /\ HasAi(t))
               => Ai(t).content = ConcatChunks(turns[t].calls)

\* C4 witness: two chunks, "Hel" then "lo", have been folded into the message.
C4_Witness ==
    \E t \in Turns :
        /\ turns[t].pc = "reading"
        /\ HasAi(t)
        /\ Cardinality(KindAt(t, "chunk")) = 2
        /\ Ai(t).content = Hel \o Lo

\* C5 (boundary splitting): a response text fed as two fragments cut at any
\* offset triggers the same sequence of callbacks, with the same payloads,
\* as the text fed as one fragment.
C5_BoundarySplitting ==
    splitFed = 2 => splitCalls = DecodeFragment(<<>>, splitText).calls

\* C5 witness: two frames, cut inside the "data: " prefix of the first, have
\* been fed and both callbacks were invoked.
C5_Witness ==
    /\ splitFed = 2
    /\ splitText = FrameHel \o FrameDone
    /\ splitCut = 3
    /\ Len(splitCalls) = 2

\* C6 (empty-completion fallback): a turn whose stream emitted done before
\* any content event settles with the fallback notice and isStreaming false.
C6_EmptyCompletionFallback ==
    \A t \in Turns :
        (turns[t].pc = "settled" /\ HasAi(t)
           /\ turns[t].calls # <<>> /\ turns[t].calls[1].kind = "done")
            => /\ Ai(t).content = NoResponseNotice
               /\ ~Ai(t).isStreaming

\* C7 as claimed (success path preserves content): after a successful
\* completion with a non-empty accumulator, whatever its characters, the
\* content is the accumulated text.
C7_AnyNonEmptyKept ==
    \A t \in Turns :
        (turns[t].pc = "settled" /\ HasAi(t) /\ turns[t].fullContent # <<>>)
            => /\ Ai(t).content = turns[t].fullContent
               /\ ~Ai(t).isStreaming

\* C7 amended: after sendChatMessage has returned, isStreaming is false and
\* the content is the accumulated text when it has a non-whitespace
\* character, and the fallback notice when it is empty or only whitespace.
C7_NonBlankKept ==
    \A t \in Turns :
        (turns[t].pc = "settled" /\ HasAi(t))
            => /\ ~Ai(t).isStreaming
               /\ Ai(t).content = IF NonBlank(turns[t].fullContent)
                                  THEN ConcatChunks(turns[t].calls)
                                  ELSE NoResponseNotice

\* C7 witness: a turn has settled with the accumulated text "lo" as content.
C7_Witness ==
    \E t \in Turns :
        /\ turns[t].pc = "settled"
        /\ HasAi(t)
        /\ turns[t].fullContent = Lo
        /\ Ai(t).content = Lo
        /\ ~Ai(t).isStreaming

\* C8 (settling on done): once the completion callback of a turn has run,
\* the assistant message has isStreaming false, whether or not the response
\* stream has ended.
C8_SettledOnDone ==
    \A t \in Turns :
        (HasAi(t) /\ KindAt(t, "done") # {}) => ~Ai(t).isStreaming

\* C9 (transport and mid-stream failure): a turn whose request or whose
\* reading failed ends with isStreaming false and with the error string of
\* the failure as content, nothing of the accumulated text.
FailureMessages ==
    {e.message : e \in FetchErrors \cup {x \in ReadErrors : x.isError}}
        \cup {ChatRequestFailed, FailedToSendMessage, Boom, BodyNotReadable,
              UnknownErrorOccurred}

C9_FailureOverwrites ==
    \A t \in Turns :
        (turns[t].pc = "failed" /\ HasAi(t))
            => /\ ~Ai(t).isStreaming
               /\ turns[t].error \in FailureMessages
               /\ Ai(t).content = ErrorPrefix \o turns[t].error

\* C9 witness: reading failed after "Hel" had been folded.
C9_Witness ==
    \E t \in Turns :
        /\ turns[t].pc = "failed"
        /\ HasAi(t)
        /\ turns[t].fullContent = Hel
        /\ Ai(t).content = ErrorPrefix \o turns[t].error
        /\ ~Ai(t).isStreaming

\* C10 (exceptions are delivered, not raised): a failure of the request or
\* of the reading is handed to the error callback once and sendChatMessage
\* does not raise into handleSend.
C10_DeliveredNotRaised ==
    \A t \in Turns :
        /\ turns[t].outcome # "raised"
        /\ turns[t].pc = "failed"
               => Cardinality({i \in KindAt(t, "error") :
                                  turns[t].calls[i].data = turns[t].error}) = 1

\* C11 (non-success response): a step that handles a non-success response
\* invokes the error callback exactly once, with the detail of the body or,
\* when the body has none or is not JSON, with a generic message; it invokes
\* no chunk and no completion callback and never enters the read loop.
C11_NonSuccessResponse ==
    [][\A t \in Turns, body \in NotOkBodies :
          ResponseNotOk(t, body)
              => LET expected == IF body.parseable /\ body.detail # <<>>
                                 THEN {body.detail}
                                 ELSE {ChatRequestFailed, FailedToSendMessage}
                 IN  /\ Len(turns'[t].calls) = 1
                     /\ turns'[t].calls[1].kind = "error"
                     /\ turns'[t].calls[1].data \in expected
                     /\ turns'[t].pc = "failed"
                     /\ turns'[t].fullContent = <<>>
                     /\ turns'[t].stream = <<>>]_vars

\* C11 witness: a turn has failed on a non-success response whose body
\* carried the detail "boom"; the error callback is the only callback.
C11_Witness ==
    \E t \in Turns :
        /\ turns[t].pc = "failed"
        /\ turns[t].error = Boom
        /\ turns[t].calls = <<[kind |-> "error", hasData |-> TRUE, data |-> Boom]>>

\* C12 as claimed (silent truncation): when the stream of a turn ends and no
\* done and no error event was decoded, no callback is invoked at the end,
\* the call returns normally, and the turn settles with isStreaming false,
\* with the notice as content when nothing was accumulated and with the
\* accumulated text whenever something was.
C12_TruncationKeepsAnyText ==
    [][\A t \in Turns :
          (ReadEnd(t) /\ KindAt(t, "done") = {} /\ KindAt(t, "error") = {})
              => /\ turns'[t].calls = turns[t].calls
                 /\ turns'[t].outcome = "returned"
                 /\ turns'[t].pc = "settled"
                 /\ HasAi(t) =>
                        /\ ~Ai(t)'.isStreaming
                        /\ Ai(t)'.content = IF turns[t].fullContent = <<>>
                                            THEN NoResponseNotice
                                            ELSE turns[t].fullContent]_vars

\* C12 amended: as above, with the notice as content when the accumulated
\* text is empty or only whitespace and the accumulated text otherwise.
C12_SilentTruncation ==
    [][\A t \in Turns :
          (ReadEnd(t) /\ KindAt(t, "done") = {} /\ KindAt(t, "error") = {})
              => /\ turns'[t].calls = turns[t].calls
                 /\ turns'[t].outcome = "returned"
                 /\ turns'[t].pc = "settled"
                 /\ HasAi(t) =>
                        /\ ~Ai(t)'.isStreaming
                        /\ Ai(t)'.content = IF NonBlank(turns[t].fullContent)
                                            THEN turns[t].fullContent
                                            ELSE NoResponseNotice]_vars

\* C12 witness: a stream that carried the one chunk " " and no terminal
\* event has ended, and the turn has settled with the notice.
C12_Witness ==
    \E t \in Turns :
        /\ turns[t].pc = "settled"
        /\ turns[t].outcome = "returned"
        /\ HasAi(t)
        /\ KindAt(t, "done") = {} /\ KindAt(t, "error") = {}
        /\ turns[t].fullContent = <<" ">>
        /\ Ai(t).content = NoResponseNotice
        /\ ~Ai(t).isStreaming

\* C13 (every turn settles with a rendered message): in every run in which
\* the request of an accepted submission fails, or its stream eventually ends
\* or fails, the turn eventually ends; and from the moment it has ended, its
\* assistant message, as long as its conversation exists, has isStreaming
\* false and a content with a non-whitespace character.  Every failure is
\* turned into that patch by handleSend: the turn ends as "settled" or
\* "failed", with nothing left pending.
C13_EveryTurnSettles ==
    /\ [](\A t \in Turns :
             (Ended(t) /\ HasAi(t)) => (~Ai(t).isStreaming /\ NonBlank(Ai(t).content)))
    /\ \A t \in Turns :
           (turns[t].pc \in {"fetching", "reading"}) ~> Ended(t)

\* C13 witness: a turn whose stream ended before any content has ended with
\* the notice as the rendered content.
C13_Witness ==
    \E t \in Turns :
        /\ Ended(t)
        /\ HasAi(t)
        /\ turns[t].calls = <<>>
        /\ turns[t].pc = "settled"
        /\ ~Ai(t).isStreaming
        /\ Ai(t).content = NoResponseNotice

\* the messages of conversation c in the store cs, none if c is not there
MessagesOf(cs, c) ==
    IF c \in ChatIds(cs) THEN cs[FindChat(cs, c)].messages ELSE <<>>

RolesAndContents(messages) ==
    [i \in 1..Len(messages) |-> [role |-> messages[i].role, content |-> messages[i].content]]

HasContent(m) == m.content # <<>>

HasNonBlankContent(m) == NonBlank(m.content)

\* turn t starts in this step
Starts(t) == turns[t].pc = "unused" /\ turns'[t].pc = "fetching"

ValidLines ==
    {[line |-> DataPrefix \o JsonWithData(TypeContent, Hel),
      call |-> [kind |-> "chunk", hasData |-> TRUE, data |-> Hel]],
     [line |-> DataPrefix \o JsonWithData(TypeContent, Lo) \o <<"\r">>,
      call |-> [kind |-> "chunk", hasData |-> TRUE, data |-> Lo]],
     [line |-> DataPrefix \o JsonNoData(TypeDone),
      call |-> [kind |-> "done", hasData |-> FALSE, data |-> <<>>]],
     [line |-> DataPrefix \o JsonWithData(TypeError, Boom),
      call |-> [kind |-> "error", hasData |-> TRUE, data |-> Boom]]}

\* the callbacks of the valid frames among lines, in their order
RECURSIVE ValidCalls(_)
ValidCalls(lines) ==
    IF lines = <<>> THEN <<>>
    ELSE LET v == {r \in ValidLines : r.line = Head(lines)}
         IN  (IF v = {} THEN <<>> ELSE <<(CHOOSE r \in v : TRUE).call>>)
             \o ValidCalls(Tail(lines))

\* the complete lines of a text: all but what follows its last newline
CompleteLines(text) == SubSeq(SplitNL(text), 1, Len(SplitNL(text)) - 1)

\* C15 (malformed frames are skipped): once a text is read, the callbacks
\* invoked are those of its valid frames, all of them and in their order:
\* a "data: " line with an unparseable payload, a line without the prefix
\* and a blank line each trigger no callback and take nothing away from
\* the frames that follow.
C15_MalformedSkipped ==
    splitFed = 2 => splitCalls = ValidCalls(CompleteLines(splitText))

\* C15 witness: a "data: " line cut off inside its payload, then a content
\* frame; the one callback is the chunk of the frame.
C15_Witness ==
    /\ splitFed = 2
    /\ splitText = (PartHead \o <<"\n">>) \o FrameHel
    /\ StartsWith(PartHead, DataPrefix)
    /\ splitCalls = <<[kind |-> "chunk", hasData |-> TRUE, data |-> Hel]>>

\* the two appends of turn t in this step: the conversation of the turn
\* holds what it held, then a user message with the given content, then the
\* empty streaming placeholder, and no callback of the turn has run
TurnStarted(t, content) ==
    LET before == MessagesOf(chats, turns'[t].chatId)
        after == MessagesOf(chats', turns'[t].chatId)
        n == Len(before)
    IN  /\ Len(after) = n + 2
        /\ SubSeq(after, 1, n) = before
        /\ after[n + 1].id = turns'[t].userId
        /\ after[n + 1].role = "user"
        /\ after[n + 1].content = content
        /\ after[n + 2].id = turns'[t].aiId
        /\ after[n + 2].role = "assistant"
        /\ after[n + 2].content = <<>>
        /\ after[n + 2].isStreaming
        /\ turns'[t].calls = <<>>
        /\ turns'[t].fullContent = <<>>

\* C16 as claimed (turn start): a step that accepts the text of the input
\* field appends the user message, with that text as content, and then the
\* placeholder, before any callback; a text that is empty or only
\* whitespace is never accepted.
C16_ContentIsTypedText ==
    [][\A t \in Turns, text \in UserTexts :
          (Starts(t) /\ Submit(text)) => (NonBlank(text) /\ TurnStarted(t, text))]_vars

\* C16 amended: as above, with the text stripped of its leading and
\* trailing whitespace as content of the user message.
C16_TurnStart ==
    [][\A t \in Turns, text \in UserTexts :
          (Starts(t) /\ Submit(text)) => (NonBlank(text) /\ TurnStarted(t, Trim(text)))]_vars

\* C16 witness: a second turn has just been started in a conversation: its
\* two messages follow the two of the first turn and no callback has run.
C16_Witness ==
    \E t \in Turns :
        /\ turns[t].pc = "fetching"
        /\ turns[t].calls = <<>>
        /\ LET messages == MessagesOf(chats, turns[t].chatId)
           IN  /\ Len(messages) = 4
               /\ messages[3].id = turns[t].userId
               /\ messages[3].content = <<"h", "i">>
               /\ messages[4].id = turns[t].aiId
               /\ messages[4].content = <<>>
               /\ messages[4].isStreaming

\* turn t, in flight, takes a step: a callback of its stream is folded, or
\* its request or its stream ends or fails
InFlightStep(t) ==
    /\ turns[t].pc \in {"fetching", "reading"}
    /\ \/ turns'[t].pc # turns[t].pc
       \/ turns'[t].calls # turns[t].calls
       \/ turns'[t].stream # turns[t].stream

\* the step leaves everything in the store as it is, but for the assistant
\* message of turn t in the conversation of turn t
OnlyOwnMessage(t) ==
    /\ activeChat' = activeChat
    /\ Len(chats') = Len(chats)
    /\ \A i \in 1..Len(chats) :
           /\ chats'[i].id = chats[i].id
           /\ chats'[i].title = chats[i].title
           /\ chats'[i].datasetId = chats[i].datasetId
           /\ Len(chats'[i].messages) = Len(chats[i].messages)
           /\ \A j \in 1..Len(chats[i].messages) :
                  \/ chats'[i].messages[j] = chats[i].messages[j]
                  \/ /\ chats[i].id = turns[t].chatId
                     /\ chats[i].messages[j].id = turns[t].aiId

\* C17 (patches follow the conversation id): every step of a turn in flight,
\* whichever conversation is active, changes nothing in the store but the
\* assistant message of the turn in the conversation the turn was started
\* in, and does patch that message: while the stream is read its content is
\* the accumulated text, and once the turn has ended it is not streaming.
C17_PatchesFollowChatId ==
    [][\A t \in Turns :
          InFlightStep(t) =>
              /\ OnlyOwnMessage(t)
              /\ (HasAi(t) /\ turns'[t].pc = "reading")
                     => Ai(t)'.content = turns'[t].fullContent
              /\ (HasAi(t) /\ turns'[t].pc \in {"settled", "failed"})
                     => ~Ai(t)'.isStreaming]_vars

\* C17 witness: another conversation than the one of a turn is active (the
\* turn made its own active when it started) while the turn's stream is
\* read, and both chunks of the stream are in the turn's message.
C17_Witness ==
    \E t \in Turns :
        /\ turns[t].pc = "reading"
        /\ HasAi(t)
        /\ activeChat \in ChatIds(chats) \ {turns[t].chatId}
        /\ turns[t].stream = <<>>
        /\ Ai(t).content = <<" ">> \o Hel

\* C18 (message immutability): in every step and every conversation that
\* is there before and after it, a stored message keeps its id and its role;
\* a user message keeps its content; an assistant message is changed, in
\* its content or in anything else, only if it has isStreaming true before
\* the step.
C18_MessageImmutability ==
    [][\A i \in 1..Len(chats), k \in 1..Len(chats') :
          chats'[k].id = chats[i].id =>
              LET before == chats[i].messages
                  after == chats'[k].messages
              IN  \A j \in 1..Len(before) :
                      j <= Len(after) =>
                          /\ after[j].id = before[j].id
                          /\ after[j].role = before[j].role
                          /\ before[j].role = "user" => after[j] = before[j]
                          /\ after[j] # before[j] => before[j].isStreaming]_vars

\* C18 witness: the content of an assistant message was patched twice while
\* it was streaming and the turn has settled; the user message before it
\* holds the text that was sent.
C18_Witness ==
    \E t \in Turns :
        /\ turns[t].pc = "settled"
        /\ HasAi(t)
        /\ Ai(t).role = "assistant"
        /\ Ai(t).content = <<" ">> \o Hel
        /\ ~Ai(t).isStreaming
        /\ \E j \in 1..Len(MessagesOf(chats, turns[t].chatId)) :
               LET m == MessagesOf(chats, turns[t].chatId)[j]
               IN  m.id = turns[t].userId /\ m.role = "user" /\ m.content = turns[t].req.message

\* the ids of a sequence of messages, in their order
MessageIds(messages) == [j \in 1..Len(messages) |-> messages[j].id]

\* C19 (append-only order): in every step, for every conversation that is
\* there before and after it, the sequence of the message ids before the
\* step is a prefix of the sequence after it.  (Being a prefix is
\* transitive, so the same holds between any state and any later one.)
C19_AppendOnly ==
    [][\A i \in 1..Len(chats), k \in 1..Len(chats') :
          chats'[k].id = chats[i].id =>
              /\ Len(chats[i].messages) <= Len(chats'[k].messages)
              /\ SubSeq(MessageIds(chats'[k].messages), 1, Len(chats[i].messages))
                     = MessageIds(chats[i].messages)]_vars

\* C19 witness: a conversation holds the four messages of two turns in the
\* order in which they were appended.
C19_Witness ==
    \E i \in 1..Len(chats) :
        MessageIds(chats[i].messages) = <<UserMessageId(1), AiMessageId(1),
                                 UserMessageId(2), AiMessageId(2)>>

\* the patches handleSend passes to updateMessage
Patches ==
    {[content |-> Hel], [isStreaming |-> FALSE],
     [content |-> NoResponseNotice, isStreaming |-> FALSE]}

\* message m with the fields of patch u written over its own
Patched(m, u) ==
    [id |-> m.id, role |-> m.role,
     content |-> IF "content" \in DOMAIN u THEN u.content ELSE m.content,
     isStreaming |-> IF "isStreaming" \in DOMAIN u THEN u.isStreaming ELSE m.isStreaming]

\* r is the store cs after updateMessage(chatId, messageId, u) as the claim
\* describes it
UpdateMessageFrame(cs, r, chatId, messageId, u) ==
    /\ Len(r) = Len(cs)
    /\ \A i \in 1..Len(cs) :
           /\ r[i].id = cs[i].id
           /\ r[i].title = cs[i].title
           /\ r[i].datasetId = cs[i].datasetId
           /\ Len(r[i].messages) = Len(cs[i].messages)
           /\ \A j \in 1..Len(cs[i].messages) :
                  r[i].messages[j] =
                      IF cs[i].id = chatId /\ cs[i].messages[j].id = messageId
                      THEN Patched(cs[i].messages[j], u)
                      ELSE cs[i].messages[j]
    /\ (\A j \in 1..Len(MessagesOf(cs, chatId)) : MessagesOf(cs, chatId)[j].id # messageId)
           => r = cs

\* C20 (updateMessage frame): on every reachable store, updateMessage with
\* any conversation id, any message id and any patch, known or not, writes
\* the fields of the patch over those of the one message both ids name and
\* leaves every other message, every other conversation, the order and the
\* titles as they are; with an unknown conversation or message id the store
\* comes back unchanged.  The step of a turn that is one updateMessage call,
\* the patch after the stream has ended, changes nothing else of the store:
\* the active pointer stays, and so does all of it if the conversation of
\* the turn is gone.
C20_UpdateMessageFrame ==
    /\ [](\A chatId \in 1..(MaxChats + 1), messageId \in 1..(2 * MaxTurns + 1), u \in Patches :
             UpdateMessageFrame(chats, UpdateMessage(chats, chatId, messageId, u),
                                chatId, messageId, u))
    /\ [][\A t \in Turns :
             ReadEnd(t) => /\ activeChat' = activeChat
                           /\ UpdateMessageFrame(chats, chats', turns[t].chatId, turns[t].aiId,
                                                 SuccessPatch(turns[t].fullContent))
                           /\ ~HasAi(t) => chats' = chats]_vars

\* C20 witness: the patch {content: notice, isStreaming: false} has been
\* merged into the assistant message of a turn, in a store of two
\* conversations; the user message before it is as it was appended.
C20_Witness ==
    \E t \in Turns :
        /\ turns[t].pc = "settled"
        /\ HasAi(t)
        /\ Ai(t) = [id |-> turns[t].aiId, role |-> "assistant",
                    content |-> NoResponseNotice, isStreaming |-> FALSE]
        /\ Len(chats) = 2
        /\ MessagesOf(chats, turns[t].chatId)[1] =
               [id |-> turns[t].userId, role |-> "user",
                content |-> turns[t].req.message, isStreaming |-> FALSE]

\* messages as handleSend appends them, with ids no stored message has
SomeMessages ==
    {[id |-> 2 * MaxTurns + 1, role |-> "user", content |-> <<"h", "i">>, isStreaming |-> FALSE],
     [id |-> 2 * MaxTurns + 2, role |-> "assistant", content |-> <<>>, isStreaming |-> TRUE]}

\* r is the store cs after addMessage(chatId, message) as the claim
\* describes it
AddMessageFrame(cs, r, chatId, message) ==
    /\ Len(r) = Len(cs)
    /\ \A i \in 1..Len(cs) :
           IF cs[i].id = chatId
           THEN /\ r[i].id = cs[i].id
                /\ r[i].datasetId = cs[i].datasetId
                /\ r[i].messages = cs[i].messages \o <<message>>
           ELSE r[i] = cs[i]
    /\ chatId \notin ChatIds(cs) => r = cs

\* C21 (addMessage frame): on every reachable store, addMessage with any
\* conversation id, known or not, puts the message after the last message of
\* the conversation the id names and leaves every other conversation as it
\* is; with an unknown id the store comes back unchanged, with no new
\* conversation and the message nowhere.  The two appends of a turn that
\* starts change no other conversation and not the number of conversations
\* there were, but for the one a submission without active conversation
\* creates.
C21_AddMessageFrame ==
    /\ [](\A chatId \in 1..(MaxChats + 1), message \in SomeMessages :
             AddMessageFrame(chats, AddMessage(chats, chatId, message), chatId, message))
    /\ [][\A t \in Turns :
             Starts(t) =>
                 \A i \in 1..Len(chats) :
                     \E k \in 1..Len(chats') :
                         /\ chats'[k].id = chats[i].id
                         /\ chats[i].id # turns'[t].chatId => chats'[k] = chats[i]]_vars

\* C21 witness: the two messages of a turn are the messages of its
\* conversation, the placeholder last, and the other conversation of the
\* store is as createChat made it.
C21_Witness ==
    \E t \in Turns :
        /\ turns[t].pc = "fetching"
        /\ Len(chats) = 2
        /\ MessageIds(MessagesOf(chats, turns[t].chatId)) = <<turns[t].userId, turns[t].aiId>>
        /\ \E i \in 1..Len(chats) :
               /\ chats[i].id # turns[t].chatId
               /\ chats[i].messages = <<>>
               /\ chats[i].title = NewConversation

\* C22 (title derivation): on every reachable store, addMessage writes the
\* title of the conversation it names, from the first TitleLen characters of
\* the content of the message, only if the conversation has no message and
\* the message has role user; with a conversation that has messages, or
\* with a message of the assistant, the title stays as it is.
C22_TitleDerivation ==
    \A chatId \in 1..MaxChats, message \in SomeMessages :
        \A i \in 1..Len(chats) :
            chats[i].id = chatId =>
                AddMessage(chats, chatId, message)[i].title =
                    IF Len(chats[i].messages) = 0 /\ message.role = "user"
                    THEN SliceTo(message.content, TitleLen) \o Ellipsis
                    ELSE chats[i].title

\* C23 (createChat): no two conversations of the store have the same id; a
\* step that adds a conversation, from the sidebar or from a submission
\* without active conversation, puts it in front of the others, which stay
\* as they are and in their order, gives it an id none of them has and
\* makes it the active one; from the sidebar it comes with no messages.
\* createChat has no precondition: as long as an id is left, the step can
\* be taken.
C23_CreateChat ==
    /\ [](\A i, k \in 1..Len(chats) : chats[i].id = chats[k].id => i = k)
    /\ [](nextChat <= MaxChats => ENABLED NewChat)
    /\ [][Len(chats') > Len(chats) =>
             /\ Len(chats') = Len(chats) + 1
             /\ chats'[1].id \notin ChatIds(chats)
             /\ activeChat' = chats'[1].id
             /\ Tail(chats') = chats
             /\ NewChat => /\ chats'[1].messages = <<>>
                           /\ chats'[1].title = NewConversation
                           /\ chats'[1].datasetId = activeDataset]_vars

\* C23 witness: createChat was called twice; the second conversation, still
\* empty, is in front of the first and is the active one.
C23_Witness ==
    /\ Len(chats) = 2
    /\ chats[1].id # chats[2].id
    /\ chats[1].id = nextChat - 1
    /\ chats[1].messages = <<>>
    /\ activeChat = chats[1].id

\* cs without its element at position i
WithoutIndex(cs, i) == SubSeq(cs, 1, i - 1) \o SubSeq(cs, i + 1, Len(cs))

\* C24 (deleteChat): a step that deletes the conversation with a given id
\* leaves no conversation with that id; the other conversations are as they
\* were and in their order; the active pointer becomes null if it was that
\* id and stays as it is otherwise.  On an id no conversation has, the
\* operation gives the store back unchanged.
C24_DeleteChat ==
    /\ [](DeleteChatFrom(chats, MaxChats + 1) = chats)
    /\ [][\A id \in 1..MaxChats :
             DeleteChat(id) =>
                 /\ id \notin ChatIds(chats')
                 /\ chats' = WithoutIndex(chats, FindChat(chats, id))
                 /\ activeChat' = IF activeChat = id THEN Null ELSE activeChat]_vars

\* C24 witness: of two conversations the active one was deleted: one is
\* left and the active pointer is null.
C24_Witness ==
    /\ nextChat = 3
    /\ Len(chats) = 1
    /\ activeChat = Null

\* the conversation of turn t is no longer in the store
Orphaned(t) == turns[t].chatId \notin ChatIds(chats)

\* C25 (delete in flight): once the conversation of a turn in flight is
\* deleted, no step of the turn, chunk or terminal patch, brings it back or
\* changes anything in the store; the turn ends all the same, and when it
\* has ended isThinking is false.
C25_DeleteInFlight ==
    /\ [][\A t \in Turns :
             (InFlightStep(t) /\ Orphaned(t))
                 => (chats' = chats /\ activeChat' = activeChat)]_vars
    /\ [](\A t \in Turns : Ended(t) => ~isThinking)
    /\ \A t \in Turns :
           (turns[t].pc \in {"fetching", "reading"} /\ Orphaned(t))
               ~> (Ended(t) /\ Orphaned(t) /\ ~isThinking)

\* C25 witness: a turn has ended, with chunks delivered, in the mounted
\* view that started it; its conversation is gone, another one is in the
\* store, and isThinking is false.
C25_Witness ==
    \E t \in Turns :
        /\ Ended(t)
        /\ Orphaned(t)
        /\ turns[t].live
        /\ KindAt(t, "chunk") # {}
        /\ chats # <<>>
        /\ ~isThinking

\* C26 (no orphaned streaming flag): a stored message has isStreaming true
\* only if the handleSend invocation that appended it is still pending.
C26_NoOrphanedStreaming ==
    \A i \in 1..Len(chats) :
        \A j \in 1..Len(chats[i].messages) :
            chats[i].messages[j].isStreaming =>
                \E t \in Turns :
                    /\ turns[t].pc \in {"fetching", "reading"}
                    /\ turns[t].chatId = chats[i].id
                    /\ turns[t].aiId = chats[i].messages[j].id

\* C27 (in-flight flag): a submission is accepted only while isThinking is
\* false and sets it; in the mounted view that started a turn, and as long
\* as no later turn was started there, isThinking is false once the turn
\* has ended in any of its ways: the completion callback has run, a decoded
\* error was delivered, the stream has ended, or the request or the stream
\* has failed.
C27_InFlightFlag ==
    /\ [][\A t \in Turns : Starts(t) => (~isThinking /\ isThinking')]_vars
    /\ [](\A t \in Turns :
             (/\ turns[t].live
              /\ Ended(t) \/ KindAt(t, "done") # {} \/ KindAt(t, "error") # {}
              /\ \A u \in Turns \ {t} :
                     ~(turns[u].live /\ turns[u].pc \in {"fetching", "reading"}))
                 => ~isThinking)

\* C28 (active pointer validity): activeChat is null or the id of a
\* conversation of the store; and the turn a step starts has its
\* conversation in the store, with its user message and its placeholder
\* in it.
C28_ActivePointerValid ==
    /\ [](activeChat = Null \/ activeChat \in ChatIds(chats))
    /\ [][\A t \in Turns :
             Starts(t) =>
                 /\ turns'[t].chatId \in ChatIds(chats')
                 /\ {turns'[t].userId, turns'[t].aiId}
                        \subseteq {MessagesOf(chats', turns'[t].chatId)[j].id :
                                     j \in 1..Len(MessagesOf(chats', turns'[t].chatId))}]_vars

\* C28 witness: the one conversation there was has been deleted, and a
\* submission without active conversation has created the conversation that
\* now is active and holds the messages of its turn.
C28_Witness ==
    \E t \in Turns :
        /\ turns[t].pc = "fetching"
        /\ HasAi(t)
        /\ activeChat = turns[t].chatId
        /\ nextChat = 3
        /\ Len(chats) = 1

\* C29 (alternating turns): every conversation holds an even number of
\* messages, the odd positions user messages and the even positions
\* assistant messages.
C29_AlternatingTurns ==
    \A i \in 1..Len(chats) :
        /\ Len(chats[i].messages) % 2 = 0
        /\ \A j \in 1..Len(chats[i].messages) :
               chats[i].messages[j].role = (IF j % 2 = 1 THEN "user" ELSE "assistant")

\* C29 witness: two turns on the same conversation are both reading their
\* streams, and the conversation holds the four messages of the two.
C29_Witness ==
    /\ \A t \in 1..2 : turns[t].pc = "reading" /\ turns[t].calls # <<>>
    /\ turns[1].chatId = turns[2].chatId
    /\ Len(MessagesOf(chats, turns[1].chatId)) = 4

\* C30 (context of a turn): the datasetId of the request of the turn a step
\* starts is the datasetId stored in the conversation of the turn.
C30_RequestDatasetOfChat ==
    [][\A t \in Turns :
          Starts(t) =>
              turns'[t].req.datasetId
                  = chats'[FindChat(chats', turns'[t].chatId)].datasetId]_vars

====
